---- MODULE Spec2Model ----
(***************************************************************************)
(* MetaMusic: playlist analysis scripts.                                   *)
(*   variant "A"  src/index.ts          (Spotify playlist, paginated)       *)
(*   variant "B"  src/unnamed/part_000  (Deezer playlist, bulk fetch)       *)
(*                                                                         *)
(* JavaScript strings are modelled as sequences of UTF-16 code units, so    *)
(* that toLowerCase, the relational operators on strings, join and          *)
(* padStart are computed as the runtime computes them.  An absent or        *)
(* empty (falsy) string is the empty sequence.  Numbers that may be         *)
(* absent are records [k, n] with k the kind of the JavaScript value.       *)
(***************************************************************************)
EXTENDS Integers, Sequences, FiniteSets, TLC

\* ---------------------------------------------------------------- bounds
MaxTracks == 3      \* most items a playlist response chain carries
MaxPages == 3       \* most pages of a Spotify playlist
MaxItems == 2       \* most items on one Spotify page
MaxSeconds == 70    \* largest whole-second duration handed to the formatter

\* ------------------------------------------------------- string literals
Inconnu == <<73, 110, 99, 111, 110, 110, 117>>          \* 'Inconnu'
UnknownId == <<117, 110, 107, 110, 111, 119, 110>>      \* 'unknown'
CommaSpace == <<44, 32>>                                \* ', '
Empty == <<>>                                           \* '' / undefined
StrRock == <<114, 111, 99, 107>>                        \* 'rock'
StrPop == <<80, 111, 112>>                              \* 'Pop'
StrPopLower == <<112, 111, 112>>                        \* 'pop'

\* ------------------------------------------------------ JavaScript values
Num(n) == [k |-> "num", n |-> n]
Undefined == [k |-> "undefined", n |-> 0]
Null == [k |-> "null", n |-> 0]
NaN == [k |-> "nan", n |-> 0]
Infinity == [k |-> "inf", n |-> 0]
EmptyMarker == [k |-> "str", n |-> 0]                   \* the '' of `?? ''`

\* !v for a number-or-absent value
Falsy(v) == v.k \in {"undefined", "null", "nan"} \/ (v.k = "num" /\ v.n = 0)
\* Number.isFinite(v)
IsFinite(v) == v.k = "num"
\* v ?? ''
OrEmptyMarker(v) == IF v.k \in {"undefined", "null"} THEN EmptyMarker ELSE v

\* ------------------------------------------------------- string functions
\* String.prototype.toLowerCase on the ASCII range
ToLowerCase(s) == [j \in 1..Len(s) |-> IF s[j] \in 65..90 THEN s[j] + 32 ELSE s[j]]

MinOf(a, b) == IF a < b THEN a ELSE b

\* a < b on strings: code units compared left to right, a proper prefix is less
StrLess(a, b) ==
  \E p \in 1..(MinOf(Len(a), Len(b)) + 1) :
     /\ \A q \in 1..(p - 1) : a[q] = b[q]
     /\ IF p > Len(a) THEN p <= Len(b)
        ELSE IF p > Len(b) THEN FALSE
        ELSE a[p] < b[p]

\* Number.prototype.toString for a natural number
RECURSIVE DecStr(_)
DecStr(n) == IF n < 10 THEN <<48 + n>> ELSE DecStr(n \div 10) \o <<48 + (n % 10)>>

\* s.padStart(2, '0')
PadStart2(s) == IF Len(s) < 2 THEN <<48>> \o s ELSE s

\* `${minutes}:${secs.toString().padStart(2, '0')}`
MinutesSeconds(minutes, secs) == DecStr(minutes) \o <<58>> \o PadStart2(DecStr(secs))

\* Array.prototype.join(', ')
RECURSIVE Join(_)
Join(list) ==
  IF Len(list) = 0 THEN Empty
  ELSE IF Len(list) = 1 THEN list[1]
  ELSE list[1] \o CommaSpace \o Join(Tail(list))

\* -------------------------------------------------------------- durations
\* formatDurationMs of variant A
FormatDurationMs(ms) ==
  IF Falsy(ms) \/ ~IsFinite(ms) THEN Inconnu
  ELSE LET totalSec == ms.n \div 1000
           minutes == totalSec \div 60
           seconds == totalSec % 60
       IN  MinutesSeconds(minutes, seconds)

\* formatDuration of variant B
FormatDuration(seconds) ==
  IF Falsy(seconds) \/ ~IsFinite(seconds) THEN Inconnu
  ELSE LET minutes == seconds.n \div 60
           secs == seconds.n % 60
       IN  MinutesSeconds(minutes, secs)

\* durationSeconds of variant A, with the `?? ''` of the record
DurationSecondsA(ms) ==
  IF ~Falsy(ms) /\ IsFinite(ms) THEN Num(ms.n \div 1000) ELSE EmptyMarker

\* duration_seconds of variant B
DurationSecondsB(duration) == OrEmptyMarker(duration)

\* ------------------------------------------------------------------- sort
\* s || d on strings
OrElse(s, d) == IF s = Empty THEN d ELSE s

CompareCaseSensitive(a, b) ==
  IF StrLess(a.genre, b.genre) THEN -1
  ELSE IF StrLess(b.genre, a.genre) THEN 1
  ELSE IF StrLess(a.artist, b.artist) THEN -1
  ELSE IF StrLess(b.artist, a.artist) THEN 1
  ELSE IF StrLess(a.title, b.title) THEN -1
  ELSE IF StrLess(b.title, a.title) THEN 1
  ELSE 0

\* the comparator handed to records.sort: -1, 0 or 1
Compare(a, b) ==
  LET ga == ToLowerCase(OrElse(a.genre, Empty))
      gb == ToLowerCase(OrElse(b.genre, Empty))
      aa == ToLowerCase(OrElse(a.artist, Empty))
      ab == ToLowerCase(OrElse(b.artist, Empty))
      ta == ToLowerCase(OrElse(a.title, Empty))
      tb == ToLowerCase(OrElse(b.title, Empty))
  IN  IF StrLess(ga, gb) THEN -1
      ELSE IF StrLess(gb, ga) THEN 1
      ELSE IF StrLess(aa, ab) THEN -1
      ELSE IF StrLess(ab, aa) THEN 1
      ELSE IF StrLess(ta, tb) THEN -1
      ELSE IF StrLess(tb, ta) THEN 1
      ELSE 0

\* one insertion of a stable sort: r goes before the first element it precedes
InsertSorted(sorted, r) ==
  LET before == {p \in 1..Len(sorted) : Compare(r, sorted[p]) < 0}
      pos == IF before = {} THEN Len(sorted) + 1
             ELSE CHOOSE p \in before : \A q \in before : p <= q
  IN  SubSeq(sorted, 1, pos - 1) \o <<r>> \o SubSeq(sorted, pos, Len(sorted))

\* Array.prototype.sort with Compare (stable since ES2019)
RECURSIVE SortRecords(_)
SortRecords(recs) ==
  IF Len(recs) = 0 THEN <<>>
  ELSE InsertSorted(SortRecords(SubSeq(recs, 1, Len(recs) - 1)), recs[Len(recs)])

\* ------------------------------------------------ provider responses
\* TheAudioDB search.php: the request fails, or answers with an optional
\* first artist carrying an optional strGenre
AudioDBResponses ==
  { [ok |-> FALSE, hasArtist |-> FALSE, strGenre |-> Empty],
    [ok |-> TRUE, hasArtist |-> FALSE, strGenre |-> Empty],
    [ok |-> TRUE, hasArtist |-> TRUE, strGenre |-> Empty],
    [ok |-> TRUE, hasArtist |-> TRUE, strGenre |-> StrRock],
    [ok |-> TRUE, hasArtist |-> TRUE, strGenre |-> Inconnu] }

\* Spotify /v1/artists/{id}: the request fails, or answers with an optional
\* list of genre tags
SpotifyArtistResponses ==
  { [ok |-> FALSE, hasGenres |-> FALSE, genres |-> <<>>],
    [ok |-> TRUE, hasGenres |-> FALSE, genres |-> <<>>],
    [ok |-> TRUE, hasGenres |-> TRUE, genres |-> <<>>],
    [ok |-> TRUE, hasGenres |-> TRUE, genres |-> <<Empty>>],
    [ok |-> TRUE, hasGenres |-> TRUE, genres |-> <<StrPop, StrRock>>] }

\* Deezer /album/{id}: the request fails, or answers with an optional list of
\* genre objects, given here by their names (an empty name is a missing one)
DeezerAlbumResponses ==
  { [ok |-> FALSE, hasGenres |-> FALSE, genres |-> <<>>],
    [ok |-> TRUE, hasGenres |-> FALSE, genres |-> <<>>],
    [ok |-> TRUE, hasGenres |-> TRUE, genres |-> <<Empty>>],
    [ok |-> TRUE, hasGenres |-> TRUE, genres |-> <<StrPop>>],
    [ok |-> TRUE, hasGenres |-> TRUE, genres |-> <<StrPopLower, Empty, StrRock>>] }

NoResponse == [ok |-> FALSE, hasGenres |-> FALSE, genres |-> <<>>]

\* ------------------------------------------------ variant A: enrichment
\* getGenreFromAudioDB: the genre it resolves to, given the provider's answer
GetGenreFromAudioDB(resp) ==
  IF ~resp.ok THEN Inconnu
  ELSE IF resp.hasArtist /\ resp.strGenre # Empty THEN resp.strGenre
  ELSE Inconnu

\* getGenreFromSpotifyById: genre and whether the network was used
GetGenreFromSpotifyById(artistId, resp) ==
  IF artistId = Empty \/ artistId = UnknownId
    THEN [genre |-> Inconnu, called |-> FALSE]
  ELSE IF ~resp.ok THEN [genre |-> Inconnu, called |-> TRUE]
  ELSE LET genres == IF resp.hasGenres THEN resp.genres ELSE <<>>
       IN  [genre |-> IF Len(genres) > 0 THEN genres[1] ELSE Inconnu, called |-> TRUE]

GetGenreWithFallbackSpotifyFirst(artistId, audio, spot) ==
  LET fromSpotify == GetGenreFromSpotifyById(artistId, spot)
      fromAudioDB == GetGenreFromAudioDB(audio)
  IN  IF artistId # Empty /\ fromSpotify.genre # Empty /\ fromSpotify.genre # Inconnu
        THEN [genre |-> fromSpotify.genre, calls |-> <<"spotify">>]
      ELSE [genre |-> fromAudioDB, calls |-> <<"spotify", "audiodb">>]

\* getGenreWithFallback: the genre and the network calls made, in order
GetGenreWithFallback(artistId, audio, spot) ==
  LET fromAudioDB == GetGenreFromAudioDB(audio)
  IN  IF fromAudioDB # Empty /\ fromAudioDB # Inconnu
        THEN [genre |-> fromAudioDB, calls |-> <<"audiodb">>]
      ELSE IF artistId # Empty
        THEN LET fromSpotify == GetGenreFromSpotifyById(artistId, spot)
                 calls == IF fromSpotify.called THEN <<"audiodb", "spotify">>
                          ELSE <<"audiodb">>
             IN  IF fromSpotify.genre # Empty /\ fromSpotify.genre # Inconnu
                   THEN [genre |-> fromSpotify.genre, calls |-> calls]
                 ELSE [genre |-> Inconnu, calls |-> calls]
      ELSE [genre |-> Inconnu, calls |-> <<"audiodb">>]

\* ------------------------------------------------ variant B: enrichment
DeezerGenresUnfiltered(resp) == IF resp.hasGenres THEN resp.genres ELSE <<>>

\* the genres array built from response.data.genres.data
DeezerGenres(resp) ==
  IF resp.hasGenres THEN SelectSeq(resp.genres, LAMBDA g : g # Empty) ELSE <<>>

\* albumCache.set(albumId, result)
CacheSet(cache, albumId, genres) ==
  [x \in (DOMAIN cache) \cup {albumId} |-> IF x = albumId THEN genres ELSE cache[x]]

GetDeezerAlbumInfoNoStore(albumId, cache, resp) ==
  IF albumId \in DOMAIN cache
    THEN [genres |-> cache[albumId], cache |-> cache, called |-> FALSE]
  ELSE IF resp.ok
    THEN [genres |-> DeezerGenres(resp), cache |-> cache, called |-> TRUE]
  ELSE [genres |-> <<>>, cache |-> cache, called |-> TRUE]

\* getDeezerAlbumInfo: the genres returned, the cache afterwards, and whether
\* the album request was issued
GetDeezerAlbumInfo(albumId, cache, resp) ==
  IF albumId \in DOMAIN cache
    THEN [genres |-> cache[albumId], cache |-> cache, called |-> FALSE]
  ELSE IF resp.ok
    THEN LET genres == DeezerGenres(resp)
         IN  [genres |-> genres, cache |-> CacheSet(cache, albumId, genres), called |-> TRUE]
  ELSE [genres |-> <<>>, cache |-> cache, called |-> TRUE]

\* getAudioDBInfo(...).genre
GetAudioDBInfo(resp) ==
  IF resp.ok /\ resp.hasArtist /\ resp.strGenre # Empty THEN resp.strGenre ELSE Inconnu

\* ------------------------------------------------ playlists served
StrB == <<98>>                                          \* 'b'
StrBUpper == <<66>>                                     \* 'B'
StrX == <<88>>                                          \* 'X'
StrXLower == <<120>>                                    \* 'x'
StrArtistId == <<97, 49>>                               \* 'a1'
StrAlbum == <<76, 80>>                                  \* 'LP'

\* items of a Spotify playlist page: one whose track is null, a full track,
\* a track with neither artists nor album and a zero duration, and a local
\* track whose artist has a name but no identifier and which has no duration
SpotifyItems ==
  { [track |-> FALSE, name |-> Empty, hasArtist |-> FALSE, artistId |-> Empty,
     artistName |-> Empty, hasAlbum |-> FALSE, albumId |-> Empty,
     albumName |-> Empty, duration_ms |-> Undefined],
    [track |-> TRUE, name |-> StrB, hasArtist |-> TRUE, artistId |-> StrArtistId,
     artistName |-> StrX, hasAlbum |-> TRUE, albumId |-> StrArtistId,
     albumName |-> StrAlbum, duration_ms |-> Num(65000)],
    [track |-> TRUE, name |-> StrB, hasArtist |-> FALSE, artistId |-> Empty,
     artistName |-> Empty, hasAlbum |-> FALSE, albumId |-> Empty,
     albumName |-> Empty, duration_ms |-> Num(0)],
    [track |-> TRUE, name |-> StrBUpper, hasArtist |-> TRUE, artistId |-> Empty,
     artistName |-> StrXLower, hasAlbum |-> TRUE, albumId |-> StrArtistId,
     albumName |-> StrAlbum, duration_ms |-> Undefined] }

\* album identifiers of the Deezer catalogue (0 stands for a missing one)
AlbumIds == {1, 2}

\* tracks of a Deezer playlist, in the provider's native shape
DeezerTracks ==
  { [title |-> StrB, artistName |-> StrX, albumId |-> 1, albumTitle |-> StrAlbum,
     duration |-> Num(65)],
    [title |-> StrBUpper, artistName |-> StrXLower, albumId |-> 2, albumTitle |-> StrAlbum,
     duration |-> Num(0)],
    [title |-> Empty, artistName |-> Empty, albumId |-> 0, albumTitle |-> Empty,
     duration |-> Null] }

SeqsUpTo(S, n) == UNION {[1..m -> S] : m \in 0..n}

\* the item lists of n pages that carry at most `budget` items together
RECURSIVE ChainsOf(_, _)
ChainsOf(n, budget) ==
  IF n = 0 THEN {<<>>}
  ELSE UNION { {<<items>> \o rest : rest \in ChainsOf(n - 1, budget - Len(items))} :
               items \in SeqsUpTo(SpotifyItems, MinOf(MaxItems, budget)) }

\* the playlists the adapter is run on: one to MaxPages pages
PageChains == UNION {ChainsOf(n, MaxTracks) : n \in 1..MaxPages}

\* the playlists a whole run is made on: one item a page, or one empty page
RunChains ==
  {[p \in 1..Len(s) |-> <<s[p]>>] : s \in SeqsUpTo(SpotifyItems, MaxTracks) \ {<<>>}}
    \cup {<< <<>> >>}

\* a playlist as the server pages it: page p links to page p + 1, the last
\* page has no `next` (0)
ServerPages(chain) ==
  [p \in 1..Len(chain) |->
     [items |-> chain[p], next |-> IF p < Len(chain) THEN p + 1 ELSE 0]]

\* ------------------------------------------------ variant A: the adapter
\* the Track built from a playlist item's track object
MapItem(item) ==
  [title |-> item.name,
   durationMs |-> item.duration_ms,
   artistId |-> IF item.hasArtist THEN item.artistId ELSE UnknownId,
   artistName |-> IF item.hasArtist THEN item.artistName ELSE Inconnu,
   albumId |-> IF item.hasAlbum THEN item.albumId ELSE UnknownId,
   albumTitle |-> IF item.hasAlbum THEN item.albumName ELSE Inconnu]

\* the for loop over data.items: items without a track are skipped
RECURSIVE MapItems(_)
MapItems(items) ==
  IF Len(items) = 0 THEN <<>>
  ELSE IF ~items[1].track THEN MapItems(Tail(items))
  ELSE <<MapItem(items[1])>> \o MapItems(Tail(items))

NextUrlNone(page) == 0

\* url = data.next
NextUrl(page) == page.next

\* ------------------------------------------------------------- the state
VARIABLES
  variant,        \* "A" (Spotify script) or "B" (Deezer script)
  pages,          \* A: the playlist as the server pages it
  bulk,           \* B: the playlist as the server returns it in one response
  pc,             \* position of analyzePlaylist
  url,            \* A: the page getPlaylistTracks requests next (0: none)
  requests,       \* the playlist requests issued, in order
  tracks,         \* the result of getPlaylistTracks
  fetchOk,        \* getPlaylistTracks has returned
  i,              \* index of the next track of the for loop
  records,        \* the records pushed, in track order
  csv,            \* the records handed to csvWriter.writeRecords
  csvWrites,      \* number of writeRecords calls
  albumCache,     \* B: the albumCache map
  albumCalls,     \* B: album requests issued, per album identifier
  albumAnswered,  \* B: album identifiers whose request has been answered
  log,            \* enrichment requests and pauses, in order, tagged by track
  last,           \* what the enrichment of the latest track saw and returned
  fmtIn,          \* argument of a formatDurationMs call
  fmtOut          \* its result

vars == <<variant, pages, bulk, pc, url, requests, tracks, fetchOk, i, records, csv,
          csvWrites, albumCache, albumCalls, albumAnswered, log, last, fmtIn, fmtOut>>

NoLast ==
  [artistId |-> Empty, audio |-> NoResponse, spot |-> NoResponse, calls |-> <<>>,
   genre |-> Empty, albumId |-> 0, hit |-> FALSE, albumGenres |-> <<>>]

Idle ==
  /\ url = 1
  /\ requests = <<>>
  /\ tracks = <<>>
  /\ fetchOk = FALSE
  /\ i = 1
  /\ records = <<>>
  /\ csv = <<>>
  /\ csvWrites = 0
  /\ albumCache = <<>>
  /\ albumCalls = [a \in AlbumIds |-> 0]
  /\ albumAnswered = {}
  /\ log = <<>>
  /\ last = NoLast

\* a run of either script, on any playlist the pools can build
Init ==
  /\ variant \in {"A", "B"}
  /\ IF variant = "A"
       THEN pages \in {ServerPages(c) : c \in RunChains} /\ bulk = <<>>
       ELSE pages = <<>> /\ bulk \in SeqsUpTo(DeezerTracks, MaxTracks)
  /\ pc = "fetch"
  /\ Idle
  /\ fmtIn = Undefined
  /\ fmtOut = Empty

\* -------------------------------------------------------------- fetching
AfterFetchErrorSwallowed == "loop"

\* a rejected playlist request leaves getPlaylistTracks and the try block:
\* the catch of analyzePlaylist logs it and the run is over
AfterFetchError == "aborted"

\* A: one iteration of the while (url) loop of getPlaylistTracks
FetchPageOk ==
  /\ variant = "A" /\ pc = "fetch" /\ url # 0
  /\ requests' = Append(requests, url)
  /\ tracks' = tracks \o MapItems(pages[url].items)
  /\ url' = NextUrl(pages[url])
  /\ fetchOk' = (url' = 0)
  /\ pc' = IF url' = 0 THEN "loop" ELSE "fetch"
  /\ UNCHANGED <<variant, pages, bulk, i, records, csv, csvWrites, albumCache,
                 albumCalls, albumAnswered, log, last, fmtIn, fmtOut>>

\* A: the page request is rejected
FetchPageFail ==
  /\ variant = "A" /\ pc = "fetch" /\ url # 0
  /\ requests' = Append(requests, url)
  /\ pc' = AfterFetchError
  /\ UNCHANGED <<variant, pages, bulk, url, tracks, fetchOk, i, records, csv, csvWrites,
                 albumCache, albumCalls, albumAnswered, log, last, fmtIn, fmtOut>>

\* B: getPlaylistTracks, one request, the provider's list returned as it is
FetchBulkOk ==
  /\ variant = "B" /\ pc = "fetch"
  /\ requests' = Append(requests, 1)
  /\ tracks' = bulk
  /\ fetchOk' = TRUE
  /\ pc' = "loop"
  /\ UNCHANGED <<variant, pages, bulk, url, i, records, csv, csvWrites, albumCache,
                 albumCalls, albumAnswered, log, last, fmtIn, fmtOut>>

\* B: the playlist request is rejected
FetchBulkFail ==
  /\ variant = "B" /\ pc = "fetch"
  /\ requests' = Append(requests, 1)
  /\ pc' = AfterFetchError
  /\ UNCHANGED <<variant, pages, bulk, url, tracks, fetchOk, i, records, csv, csvWrites,
                 albumCache, albumCalls, albumAnswered, log, last, fmtIn, fmtOut>>

\* ------------------------------------------------------- the track loop
Event(t, e) == [t |-> t, e |-> e]

CallEvents(t, calls) == [j \in 1..Len(calls) |-> Event(t, calls[j])]

ThrottleANever(t) == <<>>

\* A: the setTimeout pause that follows getGenreWithFallback for every track
ThrottleA(t) == <<Event(t, "pause")>>

ThrottleBAlways(t, usedFallback) == <<Event(t, "pause")>>

\* B: the setTimeout pause inside `if (genreName === 'Inconnu')`
ThrottleB(t, usedFallback) == IF usedFallback THEN <<Event(t, "pause")>> ELSE <<>>

\* A: one iteration of the for loop of analyzePlaylist
ProcessTrackA ==
  /\ variant = "A" /\ pc = "loop" /\ i <= Len(tracks)
  /\ LET track == tracks[i]
         artistId == track.artistId
     IN  \E audio \in AudioDBResponses, spot \in SpotifyArtistResponses :
           LET r == GetGenreWithFallback(artistId, audio, spot)
               asked == \E j \in 1..Len(r.calls) : r.calls[j] = "spotify"
           IN  /\ log' = log \o CallEvents(i, r.calls) \o ThrottleA(i)
               /\ records' = Append(records,
                    [title |-> track.title,
                     artist |-> track.artistName,
                     album |-> track.albumTitle,
                     genre |-> r.genre,
                     duration |-> FormatDurationMs(track.durationMs),
                     duration_seconds |-> DurationSecondsA(track.durationMs)])
               /\ last' = [NoLast EXCEPT !.artistId = artistId, !.audio = audio,
                             !.spot = IF asked THEN spot ELSE NoResponse,
                             !.calls = r.calls, !.genre = r.genre]
  /\ i' = i + 1
  /\ UNCHANGED <<variant, pages, bulk, pc, url, requests, tracks, fetchOk, csv, csvWrites,
                 albumCache, albumCalls, albumAnswered, fmtIn, fmtOut>>

\* B: one iteration of the for loop of analyzePlaylist
ProcessTrackB ==
  /\ variant = "B" /\ pc = "loop" /\ i <= Len(tracks)
  /\ LET track == tracks[i]
         artistName == OrElse(track.artistName, Inconnu)
         trackTitle == OrElse(track.title, Inconnu)
         albumId == track.albumId
     IN  \E albumResp \in DeezerAlbumResponses, audio \in AudioDBResponses :
           LET info == IF albumId # 0
                         THEN GetDeezerAlbumInfo(albumId, albumCache, albumResp)
                         ELSE [genres |-> <<>>, cache |-> albumCache, called |-> FALSE]
               fromAlbum == IF Len(info.genres) > 0 THEN Join(info.genres) ELSE Inconnu
               usedFallback == fromAlbum = Inconnu
               genreName == IF usedFallback THEN GetAudioDBInfo(audio) ELSE fromAlbum
               calls == (IF info.called THEN <<"album">> ELSE <<>>)
                        \o (IF usedFallback THEN <<"audiodb">> ELSE <<>>)
           IN  /\ albumCache' = info.cache
               /\ albumCalls' = IF info.called
                                  THEN [albumCalls EXCEPT ![albumId] = @ + 1]
                                  ELSE albumCalls
               /\ albumAnswered' = IF info.called /\ albumResp.ok
                                     THEN albumAnswered \cup {albumId}
                                     ELSE albumAnswered
               /\ log' = log \o CallEvents(i, calls) \o ThrottleB(i, usedFallback)
               /\ records' = Append(records,
                    [title |-> trackTitle,
                     artist |-> artistName,
                     album |-> OrElse(track.albumTitle, Inconnu),
                     genre |-> genreName,
                     duration |-> FormatDuration(track.duration),
                     duration_seconds |-> DurationSecondsB(track.duration)])
               /\ last' = [NoLast EXCEPT !.calls = calls, !.genre = genreName,
                             !.albumId = albumId,
                             !.hit = (albumId # 0 /\ ~info.called),
                             !.albumGenres = info.genres]
  /\ i' = i + 1
  /\ UNCHANGED <<variant, pages, bulk, pc, url, requests, tracks, fetchOk, csv, csvWrites,
                 fmtIn, fmtOut>>

\* records.sort(...) and csvWriter.writeRecords(records), after the loop
SortAndWrite ==
  /\ pc = "loop" /\ i > Len(tracks)
  /\ csv' = SortRecords(records)
  /\ csvWrites' = csvWrites + 1
  /\ pc' = "done"
  /\ UNCHANGED <<variant, pages, bulk, url, requests, tracks, fetchOk, i, records,
                 albumCache, albumCalls, albumAnswered, log, last, fmtIn, fmtOut>>

Next ==
  \/ FetchPageOk
  \/ FetchPageFail
  \/ FetchBulkOk
  \/ FetchBulkFail
  \/ ProcessTrackA
  \/ ProcessTrackB
  \/ SortAndWrite

Spec == Init /\ [][Next]_vars

\* ------------------------------------------- getPlaylistTracks on its own
InitPages ==
  /\ variant = "A"
  /\ pages \in {ServerPages(c) : c \in PageChains}
  /\ bulk = <<>>
  /\ pc = "fetch"
  /\ Idle
  /\ fmtIn = Undefined
  /\ fmtOut = Empty

NextPages ==
  \/ FetchPageOk
  \/ FetchPageFail

SpecPages == InitPages /\ [][NextPages]_vars

\* ------------------------------------------- formatDurationMs on its own
\* arguments of formatDurationMs: the absent and non-finite values, and for
\* every whole second up to MaxSeconds the first, second and last millisecond
FormatInputs ==
  {Undefined, Null, NaN, Infinity}
    \cup {Num(sec * 1000 + r) : sec \in 0..MaxSeconds, r \in {0, 1, 999}}
    \cup {Num(65000), Num(65999)}

InitFmt ==
  /\ variant = "A"
  /\ pages = <<>>
  /\ bulk = <<>>
  /\ pc = "format"
  /\ Idle
  /\ fmtIn \in FormatInputs
  /\ fmtOut = Empty

\* one call formatDurationMs(fmtIn)
FormatCall ==
  /\ pc = "format"
  /\ fmtOut' = FormatDurationMs(fmtIn)
  /\ pc' = "formatted"
  /\ UNCHANGED <<variant, pages, bulk, url, requests, tracks, fetchOk, i, records, csv,
                 csvWrites, albumCache, albumCalls, albumAnswered, log, last, fmtIn>>

NextFmt == FormatCall

SpecFmt == InitFmt /\ [][NextFmt]_vars

\* ================================================================ claims
Calls(t) == {p \in 1..Len(log) : log[p].t = t /\ log[p].e # "pause"}

Pauses(t) == {p \in 1..Len(log) : log[p].t = t /\ log[p].e = "pause"}

\* C1: in a Deezer run every album lookup that misses the cache stores its
\* result under the album identifier before it returns, the empty list of a
\* failed request included, so that no album identifier ever causes more
\* than one album request.
C1_EveryMissIsStored ==
  \A a \in AlbumIds :
    /\ albumCalls[a] <= 1
    /\ albumCalls[a] > 0 => a \in DOMAIN albumCache

\* C2: in a Deezer run, once the album request of an identifier has been
\* answered, no later step issues another album request for it or changes
\* the stored list, and a later lookup of it returns the stored list.
C2_AnsweredAlbumIsNeverRefetched ==
  [][\A a \in albumAnswered :
       /\ a \in DOMAIN albumCache
       /\ albumCalls'[a] = albumCalls[a]
       /\ a \in DOMAIN albumCache' /\ albumCache'[a] = albumCache[a]
       /\ (i' = i + 1 /\ last'.albumId = a)
            => (last'.hit /\ last'.albumGenres = albumCache[a])]_vars

\* two tracks of one album, one album request, the second lookup served from
\* the cache with a non-empty list
C2_Witness ==
  /\ variant = "B"
  /\ last.hit
  /\ albumCalls[last.albumId] = 1
  /\ last.albumGenres # <<>>
  /\ i = 3

\* C3 as stated: in both variants a track whose enrichment step issued a
\* network request is followed by a pause before the next track, and no two
\* tracks' enrichment requests are issued without a pause between them.
C3_PauseAfterEveryNetworkStep ==
  /\ \A t \in 1..(i - 1) : Calls(t) # {} => Pauses(t) # {}
  /\ \A p, q \in 1..Len(log) :
       (p < q /\ log[p].e # "pause" /\ log[q].e # "pause" /\ log[p].t # log[q].t)
         => \E r \in (p + 1)..(q - 1) : log[r].e = "pause"

\* C3 amended: in variant A every track's enrichment step issues the
\* TheAudioDB request and is followed by one pause; in variant B a track's
\* step is followed by one pause exactly when it issued the TheAudioDB
\* fallback request, an album request alone being followed by none.  A pause
\* comes after the requests of its track and before anything of a later one.
C3_PausePerVariant ==
  \A t \in 1..(i - 1) :
    /\ variant = "A" => (Calls(t) # {} /\ Cardinality(Pauses(t)) = 1)
    /\ variant = "B" =>
         /\ Cardinality(Pauses(t)) <= 1
         /\ Pauses(t) # {} <=> (\E p \in Calls(t) : log[p].e = "audiodb")
    /\ \A p \in Pauses(t) :
         /\ \A c \in Calls(t) : c < p
         /\ \A q \in 1..Len(log) : log[q].t > t => p < q

\* a Deezer run in which one track made an album request and no pause
\* followed, and another made the fallback request and paused
C3_Witness ==
  /\ variant = "B"
  /\ \E t \in 1..(i - 1) :
       /\ \E p \in Calls(t) : log[p].e = "album"
       /\ Pauses(t) = {}
  /\ \E t \in 1..(i - 1) :
       /\ \E p \in Calls(t) : log[p].e = "audiodb"
       /\ Pauses(t) # {}

PrimaryUsable(resp) ==
  resp.ok /\ resp.hasArtist /\ resp.strGenre # Empty /\ resp.strGenre # Inconnu

SecondaryUsable(artistId, resp) ==
  /\ artistId # Empty /\ artistId # UnknownId
  /\ resp.ok /\ resp.hasGenres /\ Len(resp.genres) > 0
  /\ resp.genres[1] # Empty /\ resp.genres[1] # Inconnu

\* C4: in variant A the genre lookup of a track asks TheAudioDB first; a
\* usable genre from it is the result and Spotify is not asked; otherwise,
\* with an artist identifier, the result is the first genre tag Spotify
\* returns; when neither provider yields a value the result is 'Inconnu'.
C4_FallbackOrder ==
  (variant = "A" /\ last.calls # <<>>) =>
    /\ last.calls[1] = "audiodb"
    /\ PrimaryUsable(last.audio) =>
         (last.genre = last.audio.strGenre /\ last.calls = <<"audiodb">>)
    /\ (~PrimaryUsable(last.audio) /\ SecondaryUsable(last.artistId, last.spot)) =>
         (last.genre = last.spot.genres[1] /\ last.calls = <<"audiodb", "spotify">>)
    /\ (~PrimaryUsable(last.audio) /\ ~SecondaryUsable(last.artistId, last.spot)) =>
         last.genre = Inconnu

\* TheAudioDB had no genre, Spotify was asked and its first tag is the result
C4_Witness ==
  /\ variant = "A"
  /\ last.calls = <<"audiodb", "spotify">>
  /\ ~PrimaryUsable(last.audio)
  /\ last.genre = StrPop

RECURSIVE AllItems(_)
AllItems(served) ==
  IF Len(served) = 0 THEN <<>> ELSE served[1].items \o AllItems(Tail(served))

WithTrack(items) == SelectSeq(items, LAMBDA it : it.track)

\* C5: for a chain of N pages whose last page has no `next`,
\* getPlaylistTracks issues N requests, one per page in chain order, and
\* returns the mapped tracks of the items that carry a track, in page order,
\* nothing else dropped or duplicated.
C5_Pagination ==
  (variant = "A" /\ fetchOk) =>
    /\ requests = [p \in 1..Len(pages) |-> p]
    /\ LET kept == WithTrack(AllItems(pages))
       IN  tracks = [j \in 1..Len(kept) |-> MapItem(kept[j])]

\* three pages, an item without a track skipped, two tracks on one page
C5_Witness ==
  /\ variant = "A" /\ fetchOk
  /\ Len(pages) = 3
  /\ Len(requests) = 3
  /\ Len(tracks) = 2
  /\ Len(AllItems(pages)) = 3
  /\ \E p \in 1..3 : Len(WithTrack(pages[p].items)) = 2

\* C6: the CSV is written at most once, only after the playlist fetch has
\* succeeded and every track has been processed, with one record per fetched
\* track; a run whose fetch succeeded never aborts and never loses a record,
\* whatever the enrichment requests answer; a run whose fetch failed aborts
\* and writes nothing.
C6_CsvIffFetched ==
  /\ csvWrites <= 1
  /\ csvWrites = 1 =>
       /\ fetchOk /\ pc = "done"
       /\ i = Len(tracks) + 1
       /\ Len(records) = Len(tracks) /\ Len(csv) = Len(tracks)
  /\ pc = "done" => csvWrites = 1
  /\ pc = "aborted" => (~fetchOk /\ csvWrites = 0 /\ records = <<>>)
  /\ ~fetchOk => (csvWrites = 0 /\ pc \in {"fetch", "aborted"})
  /\ fetchOk =>
       /\ pc \in {"loop", "done"}
       /\ pc = "loop" => (Len(records) = i - 1 /\ i <= Len(tracks) + 1)

\* a Deezer run that wrote its CSV although an album request had failed
C6_Witness ==
  /\ variant = "B" /\ pc = "done" /\ csvWrites = 1
  /\ Len(csv) = 2 /\ Len(tracks) = 2
  /\ \E a \in AlbumIds : albumCalls[a] > 0 /\ a \notin albumAnswered

\* C7: every record pushed, and every record written, has a non-empty genre.
C7_GenreNeverEmpty ==
  /\ \A j \in 1..Len(records) : Len(records[j].genre) > 0
  /\ \A j \in 1..Len(csv) : Len(csv[j].genre) > 0

\* a Deezer run with a genre joined from an album whose list had a nameless
\* entry, and a record that fell back to the sentinel
C7_Witness ==
  /\ variant = "B"
  /\ \E j \in 1..Len(records) :
       records[j].genre = StrPopLower \o CommaSpace \o StrRock
  /\ \E j \in 1..Len(records) : records[j].genre = Inconnu

\* C8: formatDurationMs gives every millisecond count of a whole second the
\* same string, minutes:seconds with the seconds on two digits, and gives
\* 'Inconnu' only for null, undefined, NaN and the infinities.
C8_FormatBySecond ==
  pc = "formatted" =>
    IF fmtIn.k = "num"
      THEN LET sec == fmtIn.n \div 1000
           IN  fmtOut = MinutesSeconds(sec \div 60, sec % 60)
      ELSE fmtOut = Inconnu

CaseFold(s) == [j \in DOMAIN s |-> IF s[j] >= 65 /\ s[j] <= 90 THEN s[j] + 32 ELSE s[j]]

KeyLess(a, b) ==
  \/ StrLess(CaseFold(a.genre), CaseFold(b.genre))
  \/ /\ CaseFold(a.genre) = CaseFold(b.genre)
     /\ \/ StrLess(CaseFold(a.artist), CaseFold(b.artist))
        \/ /\ CaseFold(a.artist) = CaseFold(b.artist)
           /\ StrLess(CaseFold(a.title), CaseFold(b.title))

KeyEqual(a, b) ==
  /\ CaseFold(a.genre) = CaseFold(b.genre)
  /\ CaseFold(a.artist) = CaseFold(b.artist)
  /\ CaseFold(a.title) = CaseFold(b.title)

\* C9: the records written are a permutation of the records pushed, in
\* ascending order of (genre, artist, title) compared without regard to
\* case, records with equal keys keeping their relative order.
C9_SortedStablePermutation ==
  csvWrites = 1 =>
    \E perm \in Permutations(1..Len(records)) :
      /\ csv = [j \in 1..Len(records) |-> records[perm[j]]]
      /\ \A j, k \in 1..Len(records) :
           j < k => \/ KeyLess(csv[j], csv[k])
                    \/ KeyEqual(csv[j], csv[k]) /\ perm[j] < perm[k]

\* three records written in another order than pushed, two different
\* records among them with equal keys that differ in case
C9_Witness ==
  /\ csvWrites = 1
  /\ Len(csv) = 3
  /\ csv # records
  /\ \E j, k \in 1..3 :
       /\ j < k
       /\ KeyEqual(records[j], records[k])
       /\ records[j].title # records[k].title

\* C10: in every record the formatted duration is 'Inconnu' exactly when the
\* numeric seconds field is the empty marker, both exactly when the track's
\* duration is absent or not finite; for a finite duration, 0 included, the
\* formatted field is minutes:seconds and the numeric field the whole seconds.
C10_DurationFieldsAgree ==
  \A j \in 1..Len(records) :
    LET d == IF variant = "A" THEN tracks[j].durationMs ELSE tracks[j].duration
        sec == IF variant = "A" THEN d.n \div 1000 ELSE d.n
        r == records[j]
    IN  /\ r.duration = Inconnu <=> r.duration_seconds = EmptyMarker
        /\ r.duration = Inconnu <=> d.k # "num"
        /\ d.k = "num" =>
             /\ r.duration = MinutesSeconds(sec \div 60, sec % 60)
             /\ r.duration_seconds = Num(sec)

====
